---- MODULE Spec2Model ----
(***************************************************************************)
(* A model of asgi_correlation_id.middleware.CorrelationIdMiddleware: the  *)
(* resolution of a correlation ID around one ASGI request, its publication *)
(* in the correlation_id context variable, and its re-injection in the     *)
(* http.response.start message.                                            *)
(*                                                                         *)
(* Python strings are sequences of one-character strings, so that the      *)
(* validator and the transformer are computed character by character.      *)
(***************************************************************************)
EXTENDS Integers, Sequences, FiniteSets, TLC

(***************************************************************************)
(* Bounds of the model.                                                    *)
(***************************************************************************)
\* Total number of requests the tasks start in one behaviour.
MaxRequests == 2
\* Number of messages an application sends after the first one.
MaxBody == 1

\* The execution contexts (asyncio tasks) that serve requests: a task serves
\* its requests one after the other, the tasks run concurrently.
Tasks == {"task1", "task2"}

(***************************************************************************)
(* Strings.                                                                *)
(***************************************************************************)
RECURSIVE Rep(_, _)
\* Python's s * n.
Rep(s, n) == IF n = 0 THEN <<>> ELSE s \o Rep(s, n - 1)

\* Length of UUID.hex: the number of hexadecimal digits of a 128-bit value.
UuidHexLen == 32

\* Python's None: a value that is no string (its one element is no character).
None == <<"None">>

\* Truthiness of an Optional[str]: None and '' are falsy.
Truthy(v) == v # None /\ v # <<>>

HexDigits == {"0", "1", "2", "3", "4", "5", "6", "7", "8", "9",
              "a", "b", "c", "d", "e", "f", "A", "B", "C", "D", "E", "F"}

LowerHexDigits == {"0", "1", "2", "3", "4", "5", "6", "7", "8", "9",
                   "a", "b", "c", "d", "e", "f"}

\* str.replace(ch, ''), for a one-character ch.
RemoveChar(s, ch) == SelectSeq(s, LAMBDA c : c # ch)

RECURSIVE LStrip(_, _)
LStrip(s, chars) ==
    IF s # <<>> /\ Head(s) \in chars THEN LStrip(Tail(s), chars) ELSE s

RECURSIVE RStrip(_, _)
RStrip(s, chars) ==
    IF s # <<>> /\ s[Len(s)] \in chars
    THEN RStrip(SubSeq(s, 1, Len(s) - 1), chars) ELSE s

\* str.strip(chars).
Strip(s, chars) == RStrip(LStrip(s, chars), chars)

\* Whether p occurs in s at position i.
OccursAt(s, p, i) == i + Len(p) - 1 <= Len(s) /\ SubSeq(s, i, i + Len(p) - 1) = p

RECURSIVE RemoveAllFrom(_, _, _)
RemoveAllFrom(s, p, i) ==
    IF i > Len(s) THEN <<>>
    ELSE IF OccursAt(s, p, i) THEN RemoveAllFrom(s, p, i + Len(p))
    ELSE <<s[i]>> \o RemoveAllFrom(s, p, i + 1)

\* str.replace(p, ''), for a non-empty p.
RemoveAll(s, p) == RemoveAllFrom(s, p, 1)

\* The digits UUID(hex=...) keeps of its argument.
UuidDigits(s) ==
    RemoveChar(
        Strip(RemoveAll(RemoveAll(s, <<"u", "r", "n", ":">>),
                        <<"u", "u", "i", "d", ":">>),
              {"{", "}"}),
        "-")

\* A mutant of is_valid_uuid4: the version digit of the ID must be 4.
is_valid_uuid4_version_checked(uuid_) ==
    LET hex == UuidDigits(uuid_)
    IN  /\ Len(hex) = UuidHexLen
        /\ \A i \in 1..Len(hex) : hex[i] \in HexDigits
        /\ hex[13] = "4"

\* is_valid_uuid4: UUID(uuid_, version=4) raises ValueError unless 32
\* hexadecimal digits are left; version=4 overwrites the version and variant
\* bits and checks nothing, and a UUID object is always truthy.
is_valid_uuid4(uuid_) ==
    LET hex == UuidDigits(uuid_)
    IN  /\ Len(hex) = UuidHexLen
        /\ \A i \in 1..Len(hex) : hex[i] \in HexDigits

(***************************************************************************)
(* The strings of the model.                                               *)
(***************************************************************************)
\* An inbound ID of 32 lowercase hexadecimal digits.
ValidId == Rep(<<"1", "a">>, 16)
\* Another one.
OtherValidId == Rep(<<"0", "f">>, 16)

\* What the tests send as bad IDs (tests' bad_uuids).
BadUuid == <<"b", "a", "d", "-", "u", "u", "i", "d">>
BadTest == <<"t", "e", "s", "t">>
BadNonHex == Rep(<<"1", "x">>, 16)
BadLastChar == SubSeq(ValidId, 1, 31) \o <<"x">>

\* The constant a custom generator returns.
GenConst == <<"f", "i", "x", "e", "d">>

\* Values uuid4().hex may return: the version digit is 4, the variant digit 8.
Uuid4Hex(c) == Rep(<<c>>, 12) \o <<"4">> \o Rep(<<c>>, 3) \o <<"8">> \o Rep(<<c>>, 15)
Uuid4Values == {Uuid4Hex("a"), Uuid4Hex("b")}

\* A value downstream code stores with correlation_id.set.
AppSetId == <<"a", "p", "p">>

\* What the application puts in the headers of its first message.
ExposeList == <<"t", "e", "s", "t", "1", ",", " ", "t", "e", "s", "t", "2">>
CookieA == <<"a", "=", "1">>
CookieB == <<"r", "=", "2">>
AppOwnId == <<"o", "w", "n">>

header_name == "X-Request-ID"
ExposeName == "Access-Control-Expose-Headers"

\* str.lower() on the header names of the model.
Lower(name) ==
    CASE name = "X-Request-ID" -> "x-request-id"
      [] name = "Access-Control-Expose-Headers" -> "access-control-expose-headers"
      [] OTHER -> name

\* header_name as a string of characters, as it appears in a header value.
HeaderNameChars == <<"X", "-", "R", "e", "q", "u", "e", "s", "t", "-", "I", "D">>

(***************************************************************************)
(* starlette.datastructures.MutableHeaders over a raw header list: a       *)
(* sequence of <<name, value>> pairs with lowercase names.                 *)
(***************************************************************************)
HIndexes(headers, key) == {i \in 1..Len(headers) : headers[i][1] = Lower(key)}

Min(S) == CHOOSE i \in S : \A j \in S : i <= j

\* Headers.get(key): the first value under key, None when there is none.
HGet(headers, key) ==
    IF HIndexes(headers, key) = {} THEN None
    ELSE headers[Min(HIndexes(headers, key))][2]

\* Headers.getlist(key).
HGetList(headers, key) ==
    LET only == SelectSeq(headers, LAMBDA h : h[1] = Lower(key))
    IN  [i \in 1..Len(only) |-> only[i][2]]

RECURSIVE DropOthers(_, _, _, _)
\* headers without the entries under key at the positions after first.
DropOthers(headers, key, first, i) ==
    IF i > Len(headers) THEN <<>>
    ELSE IF i # first /\ headers[i][1] = key
         THEN DropOthers(headers, key, first, i + 1)
         ELSE <<headers[i]>> \o DropOthers(headers, key, first, i + 1)

\* A mutant of HAppend: an entry under key takes the value, as __setitem__
\* would have it.
HAppendReplaces(headers, key, value) ==
    IF HIndexes(headers, key) = {}
    THEN Append(headers, <<Lower(key), value>>)
    ELSE [i \in 1..Len(headers) |->
            IF i = Min(HIndexes(headers, key))
            THEN <<Lower(key), value>> ELSE headers[i]]

\* MutableHeaders.append(key, value): one more entry at the end.
HAppend(headers, key, value) == Append(headers, <<Lower(key), value>>)

\* A mutant of HSetItem: the value is added as one more entry.
HSetItemAppends(headers, key, value) == HAppend(headers, key, value)

\* MutableHeaders.__setitem__(key, value): the first entry under key takes the
\* value and the other entries under key are deleted; with no entry under key
\* one is appended.
HSetItem(headers, key, value) ==
    IF HIndexes(headers, key) = {} THEN HAppend(headers, key, value)
    ELSE LET first == Min(HIndexes(headers, key))
         IN  DropOthers([headers EXCEPT ![first] = <<Lower(key), value>>],
                        Lower(key), first, 1)

(***************************************************************************)
(* The configuration of the middleware (the dataclass fields).             *)
(***************************************************************************)
Configs ==
    [validator : {"is_valid_uuid4", "None"},
     transformer : {"identity", "double", "None"},
     generator : {"uuid4", "constant"},
     update_request_header : BOOLEAN]

\* hooks: the callables, in registration order.
hooks == <<"hook1", "hook2">>

FAILED_VALIDATION_MESSAGE ==
    <<"Generated new request ID (", "%s", "), since request header value failed validation">>

\* logging's LogRecord.getMessage(): msg % args, for one %s.
getMessage(record) ==
    [i \in 1..Len(record.msg) |->
        IF record.msg[i] = "%s" THEN record.args[1] ELSE record.msg[i]]

(***************************************************************************)
(* Requests and applications.                                              *)
(***************************************************************************)
Host == <<"host", <<"t">>>>

InboundHeaders ==
    {<<Host>>,
     <<Host, <<"x-request-id", <<>>>>>>,
     <<Host, <<"x-request-id", ValidId>>>>,
     <<Host, <<"x-request-id", BadUuid>>>>,
     <<Host, <<"x-request-id", BadTest>>>>,
     <<Host, <<"x-request-id", BadNonHex>>>>,
     <<Host, <<"x-request-id", BadLastChar>>>>,
     <<Host, <<"x-request-id", GenConst>>>>,
     <<<<"x-request-id", ValidId>>, Host, <<"x-request-id", OtherValidId>>>>}

Scopes ==
    [type : {"http"}, headers : InboundHeaders]
    \cup [type : {"websocket"},
          headers : {<<Host>>, <<Host, <<"x-request-id", BadUuid>>>>}]
    \cup [type : {"lifespan"}, headers : {<<>>}]

\* The headers of the application's first message.
ResponseHeaders ==
    {<<>>,
     <<<<"access-control-expose-headers", ExposeList>>>>,
     <<<<"set-cookie", CookieA>>, <<"x-request-id", AppOwnId>>,
       <<"set-cookie", CookieB>>>>}

FirstType(stype) ==
    CASE stype = "http" -> "http.response.start"
      [] stype = "websocket" -> "websocket.accept"
      [] OTHER -> "lifespan.startup.complete"

NextType(stype) ==
    CASE stype = "http" -> "http.response.body"
      [] stype = "websocket" -> "websocket.send"
      [] OTHER -> "lifespan.shutdown.complete"

\* The headers of an http.response.trailers message.
TrailerHeaders == <<<<"x-checksum", <<"c">>>>>>

\* A message that follows the first one: a body message or, for http, the
\* trailers, which carry headers of their own.
FollowingMessage(stype, kind) ==
    IF stype = "http" /\ kind = "trailers"
    THEN [type |-> "http.response.trailers", headers |-> TrailerHeaders]
    ELSE [type |-> NextType(stype), body |-> <<"b">>]

\* What downstream code may store with correlation_id.set.
AppSetValues == {None, <<>>, AppSetId}

NotRead == <<"NotRead">>

(***************************************************************************)
(* The state.                                                              *)
(***************************************************************************)
VARIABLES
    env,    \* the environment: the tasks that serve requests, the requests
            \* they are given, how the application answers and the callables
            \* that may raise
    cfg,    \* the fields of the CorrelationIdMiddleware instance
    pc,     \* pc[t]: where task t's current request stands in __call__
    scope,  \* scope[t]: the ASGI scope of the request (type, raw headers)
    loc,    \* loc[t]: the locals header_value, id_value and the hook reached
    ctx,    \* ctx[t]: correlation_id in task t's execution context
    sent,   \* sent[t]: the messages the caller's send has received
    log,    \* log[t]: the records the request gave to logger
    gh,     \* gh[t]: history of the request (calls made, what the app saw)
    nreq    \* the number of requests started

vars == <<env, cfg, pc, scope, loc, ctx, sent, log, gh, nreq>>

NoLoc == [header_value |-> None, id_value |-> None, hook |-> 1]

NoScope == [type |-> "none", headers |-> <<>>]

NewHistory(s, c) ==
    [inbound |-> s.headers,  \* the raw headers as received
     ctx0 |-> c,             \* correlation_id before the request
     path |-> "none",        \* the branch of lines 58-67 taken
     resolved |-> None,      \* id_value before the transformer
     final |-> None,         \* id_value given to correlation_id.set
     gen |-> 0,              \* calls of generator
     val |-> 0,              \* calls of validator
     trans |-> 0,            \* calls of transformer
     ctxset |-> 0,           \* calls of correlation_id.set by __call__
     hookCalls |-> <<>>,     \* <<hook, argument>> of each hook call
     appCalls |-> 0,         \* calls of self.app
     appScope |-> NoScope,   \* the scope self.app was called with
     appSend |-> "none",     \* the send self.app was called with
     fromApp |-> <<>>,       \* the messages the application sent
     replaced |-> FALSE,     \* downstream code called correlation_id.set
     observed |-> NotRead,   \* what downstream code last read from the context
     raisedBy |-> "none"]    \* the callable that raised

\* The default configuration (the defaults of the dataclass fields).
DefaultConfig ==
    [validator |-> "is_valid_uuid4", transformer |-> "identity",
     generator |-> "uuid4", update_request_header |-> TRUE]

\* One task serves its requests one after the other, under every
\* configuration and with every request of the model; the application answers
\* with no header of its own and leaves the context alone.
Resolution ==
    [tasks |-> {"task1"}, configs |-> Configs, scopes |-> Scopes,
     responses |-> {<<>>}, appsets |-> {},
     faulty |-> {"generator", "transformer", "hook1", "hook2"},
     following |-> {"body"}]

\* One task serves its requests one after the other; the application answers
\* with every response of the model and downstream code may store a value in
\* the context.
Downstream ==
    [tasks |-> {"task1"},
     configs |-> {DefaultConfig,
                  [DefaultConfig EXCEPT !.transformer = "double",
                                        !.generator = "constant"],
                  [DefaultConfig EXCEPT !.validator = "None",
                                        !.transformer = "None",
                                        !.update_request_header = FALSE]},
     scopes |-> {[type |-> "http", headers |-> <<Host>>],
                 [type |-> "http",
                  headers |-> <<Host, <<"x-request-id", ValidId>>>>],
                 [type |-> "http",
                  headers |-> <<Host, <<"x-request-id", BadUuid>>>>],
                 [type |-> "http",
                  headers |-> <<Host, <<"x-request-id", GenConst>>>>],
                 [type |-> "websocket", headers |-> <<Host>>],
                 [type |-> "lifespan", headers |-> <<>>]},
     responses |-> ResponseHeaders, appsets |-> AppSetValues,
     faulty |-> {"hook2"}, following |-> {"body", "trailers"}]

\* Two tasks serve requests concurrently.
Concurrent ==
    [tasks |-> Tasks,
     configs |-> {[DefaultConfig EXCEPT !.transformer = "double"]},
     scopes |-> {[type |-> "http", headers |-> <<Host>>],
                 [type |-> "http",
                  headers |-> <<Host, <<"x-request-id", ValidId>>>>]},
     responses |-> {<<>>}, appsets |-> {AppSetId}, faulty |-> {},
     following |-> {"body"}]

\* The environment of the behaviour.
Env ==
    CASE env = "Resolution" -> Resolution
      [] env = "Downstream" -> Downstream
      [] OTHER -> Concurrent

\* The places of __call__ between which no await lies: a task that stands at
\* one of them runs until it leaves them (the event loop switches tasks only
\* when the application awaits).
SyncPcs == {"called", "resolve", "transform", "reconcile", "publish", "hooks"}

Turn(t) == t \in Env.tasks /\ \A u \in Tasks \ {t} : pc[u] \notin SyncPcs

Init ==
    /\ env \in {"Resolution", "Downstream", "Concurrent"}
    /\ cfg \in Env.configs
    /\ pc = [t \in Tasks |-> "idle"]
    /\ scope = [t \in Tasks |-> NoScope]
    /\ loc = [t \in Tasks |-> NoLoc]
    /\ ctx = [t \in Tasks |-> None]
    /\ sent = [t \in Tasks |-> <<>>]
    /\ log = [t \in Tasks |-> <<>>]
    /\ gh = [t \in Tasks |-> NewHistory(NoScope, None)]
    /\ nreq = 0

(***************************************************************************)
(* The decisions of __call__.                                              *)
(***************************************************************************)
\* A mutant of IsHttp: only websocket scopes are passed through.
IsNotWebsocket(s) == s.type # "websocket"

\* Line 50: scope['type'] != 'http' passes the request through.
IsHttp(s) == s.type = "http"

\* A mutant of HeaderMissing: only an absent header counts as missing.
HeaderIsNone(header_value) == header_value = None

\* Line 58: not header_value.
HeaderMissing(header_value) == ~Truthy(header_value)

\* A mutant of ValidatorRejects: the validator runs though none is configured.
ValidatorAlwaysRuns(header_value) == ~is_valid_uuid4(header_value)

\* Line 61: self.validator and not self.validator(header_value).
ValidatorRejects(header_value) ==
    cfg.validator # "None" /\ ~is_valid_uuid4(header_value)

\* Line 36 and the custom generators: what self.generator() may return.
GeneratorValues ==
    IF cfg.generator = "uuid4" THEN Uuid4Values ELSE {GenConst}

\* A mutant of RegeneratedValues: the rejected value is kept.
RejectedValueKept(l) == {l.header_value}

\* Line 63: the ID of a request whose header value was rejected; l holds the
\* locals of __call__.
RegeneratedValues(l) == GeneratorValues

\* A mutant of WarningRecord: the new ID is logged in place of the rejected one.
WarningRecordOfNewId(l) ==
    [levelname |-> "WARNING", msg |-> FAILED_VALIDATION_MESSAGE,
     args |-> <<l.id_value>>]

\* Line 64: logger.warning(FAILED_VALIDATION_MESSAGE, header_value).
WarningRecord(l) ==
    [levelname |-> "WARNING", msg |-> FAILED_VALIDATION_MESSAGE,
     args |-> <<l.header_value>>]

\* A mutant of ApplyTransformer: a reused ID is not transformed.
TransformGeneratedOnly(l) ==
    IF l.id_value = l.header_value THEN l.id_value
    ELSE CASE cfg.transformer = "double" -> l.id_value \o l.id_value
           [] OTHER -> l.id_value

\* Lines 70-71: if self.transformer: id_value = self.transformer(id_value).
\* The transformers are the default lambda a: a, and lambda a: a + a.
ApplyTransformer(l) ==
    CASE cfg.transformer = "double" -> l.id_value \o l.id_value
      [] cfg.transformer = "identity" -> l.id_value
      [] OTHER -> l.id_value

\* A mutant of NeedsUpdate: the flag is read the wrong way round.
NeedsUpdateInverted(l) ==
    l.id_value # l.header_value /\ ~cfg.update_request_header

\* Line 74: id_value != header_value and self.update_request_header is True.
NeedsUpdate(l) ==
    l.id_value # l.header_value /\ cfg.update_request_header

\* A mutant of PublishedValue: the inbound value is stored.
PublishedInbound(l) == l.header_value

\* Line 77: the argument of correlation_id.set.
PublishedValue(l) == l.id_value

\* A mutant of HooksDone: the loop stops after the first hook.
HooksDoneAfterFirst(l) == l.hook > 1

\* Line 79: the loop over self.hooks has run through; l.hook is the place of
\* the next hook.
HooksDone(l) == l.hook > Len(hooks)

\* A mutant of Propagate: the exception is caught and the application is
\* called all the same.
CaughtAndContinued(t) == [pc EXCEPT ![t] = "app"]

\* Lines 60, 63, 71 and 80: nothing catches what a callable raises, __call__
\* ends there and the exception reaches the caller.
Propagate(t) == [pc EXCEPT ![t] = "raised"]

\* A mutant of handle_outgoing_request: the header carries the ID __call__
\* resolved, whatever the context holds when the response starts.
handle_outgoing_captured(t, message) ==
    IF message.type = "http.response.start" /\ Truthy(loc[t].id_value)
    THEN [message EXCEPT !.headers = HAppend(@, header_name, loc[t].id_value)]
    ELSE message

\* A mutant of handle_outgoing_request: every message that has headers gets
\* the header.
handle_outgoing_any_headers(t, message) ==
    IF "headers" \in DOMAIN message /\ Truthy(ctx[t])
    THEN [message EXCEPT !.headers = HAppend(@, header_name, ctx[t])]
    ELSE message

\* A mutant of handle_outgoing_request: the ID is read from the context of
\* another task when one holds an ID there.
handle_outgoing_other_task(t, message) ==
    LET others == {u \in Tasks \ {t} : Truthy(ctx[u])}
        from == IF others = {} THEN t ELSE CHOOSE u \in others : TRUE
    IN  IF message.type = "http.response.start" /\ Truthy(ctx[from])
        THEN [message EXCEPT !.headers = HAppend(@, header_name, ctx[from])]
        ELSE message

\* Lines 82-87: the message handle_outgoing_request gives to send.
handle_outgoing_request(t, message) ==
    IF message.type = "http.response.start" /\ Truthy(ctx[t])
    THEN [message EXCEPT !.headers = HAppend(@, header_name, ctx[t])]
    ELSE message

(***************************************************************************)
(* The server hands a request to the middleware in task t.                 *)
(***************************************************************************)
Receive(t) ==
    /\ pc[t] \in {"idle", "done", "raised"}
    /\ Turn(t)
    /\ nreq < MaxRequests
    /\ \E s \in Env.scopes :
        /\ scope' = [scope EXCEPT ![t] = s]
        /\ gh' = [gh EXCEPT ![t] = NewHistory(s, ctx[t])]
    /\ pc' = [pc EXCEPT ![t] = "called"]
    /\ loc' = [loc EXCEPT ![t] = NoLoc]
    /\ sent' = [sent EXCEPT ![t] = <<>>]
    /\ log' = [log EXCEPT ![t] = <<>>]
    /\ nreq' = nreq + 1
    /\ UNCHANGED <<env, cfg, ctx>>

(***************************************************************************)
(* CorrelationIdMiddleware.__call__                                        *)
(***************************************************************************)
\* Lines 50-52: a scope that is not http goes to the application as it is,
\* with the caller's send.
PassThrough(t) ==
    /\ pc[t] = "called"
    /\ Turn(t)
    /\ ~IsHttp(scope[t])
    /\ pc' = [pc EXCEPT ![t] = "app"]
    /\ gh' = [gh EXCEPT ![t].appCalls = @ + 1, ![t].appScope = scope[t],
                        ![t].appSend = "send"]
    /\ UNCHANGED <<env, cfg, scope, loc, ctx, sent, log, nreq>>

\* Lines 55-56: header_value = headers.get(self.header_name.lower()).
Extract(t) ==
    /\ pc[t] = "called"
    /\ Turn(t)
    /\ IsHttp(scope[t])
    /\ loc' = [loc EXCEPT ![t].header_value =
                              HGet(scope[t].headers, Lower(header_name))]
    /\ pc' = [pc EXCEPT ![t] = "resolve"]
    /\ UNCHANGED <<env, cfg, scope, ctx, sent, log, gh, nreq>>

\* Lines 58-60: no header value, the generator gives the ID (or raises).
GenerateMissing(t) ==
    /\ pc[t] = "resolve"
    /\ Turn(t)
    /\ HeaderMissing(loc[t].header_value)
    /\ \/ \E g \in GeneratorValues :
            /\ loc' = [loc EXCEPT ![t].id_value = g]
            /\ gh' = [gh EXCEPT ![t].gen = @ + 1, ![t].path = "generated",
                                ![t].resolved = g]
            /\ pc' = [pc EXCEPT ![t] = "transform"]
       \/ /\ "generator" \in Env.faulty
          /\ gh' = [gh EXCEPT ![t].gen = @ + 1, ![t].path = "generated",
                              ![t].raisedBy = "generator"]
          /\ pc' = Propagate(t)
          /\ loc' = loc
    /\ UNCHANGED <<env, cfg, scope, ctx, sent, log, nreq>>

\* Lines 61-64: the validator rejects the header value, the generator gives
\* the ID (or raises) and the warning is logged.
GenerateRejected(t) ==
    /\ pc[t] = "resolve"
    /\ Turn(t)
    /\ ~HeaderMissing(loc[t].header_value)
    /\ ValidatorRejects(loc[t].header_value)
    /\ \/ \E g \in RegeneratedValues(loc[t]) :
            /\ loc' = [loc EXCEPT ![t].id_value = g]
            /\ gh' = [gh EXCEPT ![t].val = @ + 1, ![t].gen = @ + 1,
                                ![t].path = "regenerated", ![t].resolved = g]
            /\ log' = [log EXCEPT ![t] = Append(@, WarningRecord(loc'[t]))]
            /\ pc' = [pc EXCEPT ![t] = "transform"]
       \/ /\ "generator" \in Env.faulty
          /\ gh' = [gh EXCEPT ![t].val = @ + 1, ![t].gen = @ + 1,
                              ![t].path = "regenerated",
                              ![t].raisedBy = "generator"]
          /\ pc' = Propagate(t)
          /\ UNCHANGED <<loc, log>>
    /\ UNCHANGED <<env, cfg, scope, ctx, sent, nreq>>

\* Lines 65-67: the header value is the ID.
Reuse(t) ==
    /\ pc[t] = "resolve"
    /\ Turn(t)
    /\ ~HeaderMissing(loc[t].header_value)
    /\ ~ValidatorRejects(loc[t].header_value)
    /\ loc' = [loc EXCEPT ![t].id_value = loc[t].header_value]
    /\ gh' = [gh EXCEPT ![t].val = IF cfg.validator # "None" THEN @ + 1 ELSE @,
                        ![t].path = "reused",
                        ![t].resolved = loc[t].header_value]
    /\ pc' = [pc EXCEPT ![t] = "transform"]
    /\ UNCHANGED <<env, cfg, scope, ctx, sent, log, nreq>>

\* Lines 70-71: the transformer, when one is configured, gives the final ID
\* (or raises).
Transform(t) ==
    /\ pc[t] = "transform"
    /\ Turn(t)
    /\ \/ /\ cfg.transformer = "None"
          /\ pc' = [pc EXCEPT ![t] = "reconcile"]
          /\ UNCHANGED <<loc, gh>>
       \/ /\ cfg.transformer # "None"
          /\ loc' = [loc EXCEPT ![t].id_value = ApplyTransformer(loc[t])]
          /\ gh' = [gh EXCEPT ![t].trans = @ + 1]
          /\ pc' = [pc EXCEPT ![t] = "reconcile"]
       \/ /\ cfg.transformer # "None"
          /\ "transformer" \in Env.faulty
          /\ gh' = [gh EXCEPT ![t].trans = @ + 1,
                              ![t].raisedBy = "transformer"]
          /\ pc' = Propagate(t)
          /\ loc' = loc
    /\ UNCHANGED <<env, cfg, scope, ctx, sent, log, nreq>>

\* Lines 74-75: headers[self.header_name] = id_value, on the scope's own list.
Reconcile(t) ==
    /\ pc[t] = "reconcile"
    /\ Turn(t)
    /\ scope' = [scope EXCEPT ![t].headers =
                    IF NeedsUpdate(loc[t])
                    THEN HSetItem(@, header_name, loc[t].id_value)
                    ELSE @]
    /\ pc' = [pc EXCEPT ![t] = "publish"]
    /\ UNCHANGED <<env, cfg, loc, ctx, sent, log, gh, nreq>>

\* Line 77: correlation_id.set(id_value), in the task's own context.
Publish(t) ==
    /\ pc[t] = "publish"
    /\ Turn(t)
    /\ ctx' = [ctx EXCEPT ![t] = PublishedValue(loc[t])]
    /\ gh' = [gh EXCEPT ![t].ctxset = @ + 1,
                        ![t].final = PublishedValue(loc[t])]
    /\ pc' = [pc EXCEPT ![t] = "hooks"]
    /\ UNCHANGED <<env, cfg, scope, loc, sent, log, nreq>>

\* Lines 79-80: the next hook is called with id_value (and may raise).
Hook(t) ==
    /\ pc[t] = "hooks"
    /\ Turn(t)
    /\ ~HooksDone(loc[t])
    /\ \/ /\ gh' = [gh EXCEPT ![t].hookCalls =
                        Append(@, <<hooks[loc[t].hook], loc[t].id_value>>)]
          /\ loc' = [loc EXCEPT ![t].hook = @ + 1]
          /\ pc' = pc
       \/ /\ hooks[loc[t].hook] \in Env.faulty
          /\ gh' = [gh EXCEPT ![t].hookCalls =
                        Append(@, <<hooks[loc[t].hook], loc[t].id_value>>),
                              ![t].raisedBy = hooks[loc[t].hook]]
          /\ pc' = Propagate(t)
          /\ loc' = loc
    /\ UNCHANGED <<env, cfg, scope, ctx, sent, log, nreq>>

\* Line 89: self.app(scope, receive, handle_outgoing_request).
CallApp(t) ==
    /\ pc[t] = "hooks"
    /\ Turn(t)
    /\ HooksDone(loc[t])
    /\ pc' = [pc EXCEPT ![t] = "app"]
    /\ gh' = [gh EXCEPT ![t].appCalls = @ + 1, ![t].appScope = scope[t],
                        ![t].appSend = "handle_outgoing_request"]
    /\ UNCHANGED <<env, cfg, scope, loc, ctx, sent, log, nreq>>

(***************************************************************************)
(* The application (the inner handler and the code it calls).              *)
(***************************************************************************)
\* What the send the application was given passes to the caller's send.
Forwarded(t, message) ==
    IF gh[t].appSend = "handle_outgoing_request"
    THEN handle_outgoing_request(t, message)
    ELSE message

\* Downstream code reads correlation_id.get().
AppReadContext(t) ==
    /\ pc[t] \in {"app", "body"}
    /\ Turn(t)
    /\ gh' = [gh EXCEPT ![t].observed = ctx[t]]
    /\ UNCHANGED <<env, cfg, pc, scope, loc, ctx, sent, log, nreq>>

\* Downstream code calls correlation_id.set(v).
AppSetContext(t) ==
    /\ pc[t] = "app"
    /\ Turn(t)
    /\ ~gh[t].replaced
    /\ \E v \in Env.appsets : ctx' = [ctx EXCEPT ![t] = v]
    /\ gh' = [gh EXCEPT ![t].replaced = TRUE]
    /\ UNCHANGED <<env, cfg, pc, scope, loc, sent, log, nreq>>

\* The application sends its first message (http.response.start for http).
AppSendFirst(t) ==
    /\ pc[t] = "app"
    /\ Turn(t)
    /\ \E h \in Env.responses :
        LET message == [type |-> FirstType(scope[t].type), headers |-> h]
        IN  /\ gh' = [gh EXCEPT ![t].fromApp = Append(@, message)]
            /\ sent' = [sent EXCEPT ![t] = Append(@, Forwarded(t, message))]
    /\ pc' = [pc EXCEPT ![t] = "body"]
    /\ UNCHANGED <<env, cfg, scope, loc, ctx, log, nreq>>

\* The application sends a following message (http.response.body or
\* http.response.trailers for http).
AppSendNext(t) ==
    /\ pc[t] = "body"
    /\ Turn(t)
    /\ Len(gh[t].fromApp) < 1 + MaxBody
    /\ \E kind \in Env.following :
        LET message == FollowingMessage(scope[t].type, kind)
        IN  /\ gh' = [gh EXCEPT ![t].fromApp = Append(@, message)]
            /\ sent' = [sent EXCEPT ![t] = Append(@, Forwarded(t, message))]
    /\ UNCHANGED <<env, cfg, pc, scope, loc, ctx, log, nreq>>

\* A mutant of AppReturn: on return the context gets back the value it had
\* before the request.
AppReturnResets(t) ==
    /\ pc[t] = "body"
    /\ Turn(t)
    /\ pc' = [pc EXCEPT ![t] = "done"]
    /\ ctx' = [ctx EXCEPT ![t] = gh[t].ctx0]
    /\ UNCHANGED <<env, cfg, scope, loc, sent, log, gh, nreq>>

\* The application returns, and __call__ with it (line 90, line 52).
AppReturn(t) ==
    /\ pc[t] = "body"
    /\ Turn(t)
    /\ pc' = [pc EXCEPT ![t] = "done"]
    /\ UNCHANGED <<env, cfg, scope, loc, ctx, sent, log, gh, nreq>>

Next ==
    \/ \E t \in Tasks : Receive(t)
    \/ \E t \in Tasks : PassThrough(t)
    \/ \E t \in Tasks : Extract(t)
    \/ \E t \in Tasks : GenerateMissing(t)
    \/ \E t \in Tasks : GenerateRejected(t)
    \/ \E t \in Tasks : Reuse(t)
    \/ \E t \in Tasks : Transform(t)
    \/ \E t \in Tasks : Reconcile(t)
    \/ \E t \in Tasks : Publish(t)
    \/ \E t \in Tasks : Hook(t)
    \/ \E t \in Tasks : CallApp(t)
    \/ \E t \in Tasks : AppReadContext(t)
    \/ \E t \in Tasks : AppSetContext(t)
    \/ \E t \in Tasks : AppSendFirst(t)
    \/ \E t \in Tasks : AppSendNext(t)
    \/ \E t \in Tasks : AppReturn(t)

Spec == Init /\ [][Next]_vars

(***************************************************************************)
(* What the claims speak of.                                               *)
(***************************************************************************)
Http(t) == scope[t].type = "http"

\* The value of the first header_name header the request came with.
InboundValue(t) == HGet(gh[t].inbound, header_name)

\* 32 lowercase hexadecimal digits.
IsLowerHex32(v) ==
    Len(v) = UuidHexLen /\ \A i \in 1..Len(v) : v[i] \in LowerHexDigits

\* What the configured transformer is to make of x.
Transformed(x) == IF cfg.transformer = "double" THEN x \o x ELSE x

\* The configured validator turns v down.
FailsValidator(v) == cfg.validator = "is_valid_uuid4" /\ ~is_valid_uuid4(v)

\* Resolution (lines 58-67) is over and the generator did not raise.
Resolved(t) ==
    /\ pc[t] \in {"transform", "reconcile", "publish", "hooks", "app", "body",
                  "done", "raised"}
    /\ gh[t].raisedBy # "generator"

\* The caller's send has received the http.response.start message of t.
ResponseStarted(t) ==
    /\ Http(t)
    /\ Len(sent[t]) >= 1
    /\ sent[t][1].type = "http.response.start"

\* The headers the middleware added to the application's response headers.
AddedHeaders(t) ==
    SubSeq(sent[t][1].headers, Len(gh[t].fromApp[1].headers) + 1,
           Len(sent[t][1].headers))

\* The values of the header_name headers the middleware added.
OutboundIds(t) == HGetList(AddedHeaders(t), header_name)

\* The response was sent while correlation_id still held what __call__ stored.
Echoed(t) == ResponseStarted(t) /\ ~gh[t].replaced

RECURSIVE JoinComma(_)
\* ', '.join(values): how a client reads a header that came several times.
JoinComma(values) ==
    IF values = <<>> THEN <<>>
    ELSE IF Len(values) = 1 THEN values[1]
    ELSE values[1] \o <<",", " ">> \o JoinComma(Tail(values))

(***************************************************************************)
(* C1. A valid inbound ID of 32 lowercase hexadecimal digits, under the    *)
(* default validator and the identity transformer: the ID is reused (the   *)
(* generator is not called, nothing is logged) and the header_name header  *)
(* the middleware adds to http.response.start carries that very value.     *)
(***************************************************************************)
C1_ValidIdEchoed ==
    \A t \in Tasks :
        (/\ Http(t)
         /\ cfg.validator = "is_valid_uuid4"
         /\ cfg.transformer = "identity"
         /\ IsLowerHex32(InboundValue(t)))
        => /\ gh[t].gen = 0
           /\ log[t] = <<>>
           /\ Resolved(t) => gh[t].path = "reused"
           /\ Echoed(t) => OutboundIds(t) = <<InboundValue(t)>>

C1_Witness ==
    \E t \in Tasks :
        /\ Http(t)
        /\ cfg = DefaultConfig
        /\ InboundValue(t) = ValidId
        /\ pc[t] = "done"
        /\ Echoed(t)
        /\ OutboundIds(t) = <<ValidId>>

(***************************************************************************)
(* C2. A non-empty inbound value the validator rejects.                    *)
(***************************************************************************)
\* The rejected value of t, and the request is past its resolution.
Rejected(t) ==
    /\ Http(t)
    /\ Resolved(t)
    /\ Truthy(InboundValue(t))
    /\ FailsValidator(InboundValue(t))

\* The one record the request logged is the warning about its rejected value.
OneWarning(t) ==
    /\ Len(log[t]) = 1
    /\ log[t][1].levelname = "WARNING"
    /\ getMessage(log[t][1]) =
         <<"Generated new request ID (", InboundValue(t),
           "), since request header value failed validation">>

\* C2 as claimed: for every generator and transformer the outbound value
\* differs from the rejected inbound value, and exactly one warning with the
\* rejected value is logged.
C2_AsClaimed ==
    \A t \in Tasks :
        Rejected(t)
        => /\ OneWarning(t)
           /\ Echoed(t) =>
                /\ Len(OutboundIds(t)) = 1
                /\ OutboundIds(t)[1] # InboundValue(t)

\* C2 as amended: the outbound value is the transformed ID the generator
\* returned; it differs from the rejected inbound value under the default
\* generator with the identity (or no) transformer; exactly one warning
\* with the rejected value is logged.
C2_RejectedRegenerated ==
    \A t \in Tasks :
        Rejected(t)
        => /\ OneWarning(t)
           /\ gh[t].gen = 1
           /\ gh[t].resolved \in GeneratorValues
           /\ Echoed(t) =>
                /\ OutboundIds(t) = <<Transformed(gh[t].resolved)>>
                /\ (cfg.generator = "uuid4" /\ cfg.transformer # "double")
                     => OutboundIds(t)[1] # InboundValue(t)

C2_Witness ==
    \E t \in Tasks :
        /\ Rejected(t)
        /\ InboundValue(t) = BadLastChar
        /\ cfg.generator = "uuid4"
        /\ pc[t] = "done"
        /\ Echoed(t)
        /\ OutboundIds(t) = <<Uuid4Hex("a")>>
        /\ Len(log[t]) = 1

(***************************************************************************)
(* C3. No inbound header_name header, or an empty one: the generator is    *)
(* called once, the validator is not called, nothing is logged, and the    *)
(* header the middleware adds carries the transformed generated ID.        *)
(***************************************************************************)
C3_MissingGenerated ==
    \A t \in Tasks :
        (Http(t) /\ ~Truthy(InboundValue(t)) /\ Resolved(t))
        => /\ gh[t].gen = 1
           /\ gh[t].val = 0
           /\ log[t] = <<>>
           /\ gh[t].resolved \in GeneratorValues
           /\ Echoed(t) => OutboundIds(t) = <<Transformed(gh[t].resolved)>>

C3_Witness ==
    \E t \in Tasks :
        /\ Http(t)
        /\ InboundValue(t) = <<>>
        /\ cfg.validator = "is_valid_uuid4"
        /\ pc[t] = "done"
        /\ Echoed(t)
        /\ OutboundIds(t) = <<Transformed(Uuid4Hex("b"))>>

(***************************************************************************)
(* C4. The http.response.start message the caller receives exposes         *)
(* header_name in Access-Control-Expose-Headers: alone when the            *)
(* application set no such header, after the application's list otherwise. *)
(***************************************************************************)
C4_ExposeHeaders ==
    \A t \in Tasks :
        Echoed(t)
        => JoinComma(HGetList(sent[t][1].headers, ExposeName)) =
             JoinComma(HGetList(gh[t].fromApp[1].headers, ExposeName)
                       \o <<HeaderNameChars>>)

(***************************************************************************)
(* C5. While requests are in flight in several tasks, what a hook or the   *)
(* handler of a request reads from the context is the final ID of that     *)
(* same request (as long as downstream code has not stored another value), *)
(* whatever the other tasks do meanwhile.                                  *)
(***************************************************************************)
\* The IDs the request of t may resolve to, from what it came with.
ExpectedResolved(t) ==
    IF ~Truthy(InboundValue(t)) \/ FailsValidator(InboundValue(t))
    THEN GeneratorValues
    ELSE {InboundValue(t)}

\* The hooks or the handler of the request of t are running.
InHandler(t) == Http(t) /\ pc[t] \in {"hooks", "app", "body"}

C5_ContextIsolated ==
    \A t \in Tasks :
        (InHandler(t) /\ ~gh[t].replaced)
        => /\ ctx[t] = loc[t].id_value
           /\ \E r \in ExpectedResolved(t) : ctx[t] = Transformed(r)
           /\ gh[t].observed \in {NotRead, loc[t].id_value}

C5_Witness ==
    \E t, u \in Tasks :
        /\ t # u
        /\ InHandler(t) /\ InHandler(u)
        /\ pc[t] = "body" /\ pc[u] = "app"
        /\ loc[t].id_value # loc[u].id_value
        /\ gh[t].observed = loc[t].id_value
        /\ gh[u].observed = loc[u].id_value

(***************************************************************************)
(* C6. A scope whose type is not http: the application is called once,     *)
(* with the scope and the send the middleware was called with, and the     *)
(* middleware does nothing else: no generator, validator, transformer or   *)
(* hook call, no correlation_id.set, no log record, the inbound headers    *)
(* and the messages the application sends unchanged.                       *)
(***************************************************************************)
C6_NonHttpPassThrough ==
    \A t \in Tasks :
        (pc[t] # "idle" /\ ~Http(t))
        => /\ gh[t].gen = 0 /\ gh[t].val = 0 /\ gh[t].trans = 0
           /\ gh[t].hookCalls = <<>>
           /\ gh[t].ctxset = 0
           /\ ~gh[t].replaced => ctx[t] = gh[t].ctx0
           /\ log[t] = <<>>
           /\ loc[t] = NoLoc
           /\ scope[t].headers = gh[t].inbound
           /\ sent[t] = gh[t].fromApp
           /\ pc[t] \in {"called", "app", "body", "done"}
           /\ pc[t] # "called"
                => /\ gh[t].appCalls = 1
                   /\ gh[t].appSend = "send"
                   /\ gh[t].appScope = [type |-> scope[t].type,
                                        headers |-> gh[t].inbound]

C6_Witness ==
    \E t \in Tasks :
        /\ scope[t].type = "websocket"
        /\ InboundValue(t) = BadUuid
        /\ pc[t] = "done"
        /\ Len(sent[t]) = 2
        /\ gh[t].appCalls = 1

(***************************************************************************)
(* C7. With a transformer configured the final ID (in the context, given   *)
(* to the hooks, echoed in the response) is transformer(resolved ID) on    *)
(* the reuse path, the generation path and the regeneration path; with     *)
(* f(x) = x + x a valid inbound cid gives the outbound value cid + cid.    *)
(***************************************************************************)
\* The transformer has run and did not raise.
TransformerDone(t) ==
    /\ Http(t)
    /\ cfg.transformer # "None"
    /\ pc[t] \in {"reconcile", "publish", "hooks", "app", "body", "done",
                  "raised"}
    /\ gh[t].raisedBy \notin {"generator", "transformer"}

C7_TransformerOnEveryPath ==
    \A t \in Tasks :
        TransformerDone(t)
        => /\ gh[t].resolved \in ExpectedResolved(t)
           /\ gh[t].trans = 1
           /\ loc[t].id_value = Transformed(gh[t].resolved)
           /\ gh[t].ctxset = 1 => gh[t].final = Transformed(gh[t].resolved)
           /\ \A i \in 1..Len(gh[t].hookCalls) :
                gh[t].hookCalls[i][2] = Transformed(gh[t].resolved)
           /\ Echoed(t) => OutboundIds(t) = <<Transformed(gh[t].resolved)>>
           /\ (Echoed(t) /\ cfg.transformer = "double"
                 /\ cfg.validator = "is_valid_uuid4"
                 /\ IsLowerHex32(InboundValue(t)))
                => OutboundIds(t) = <<InboundValue(t) \o InboundValue(t)>>

C7_Witness ==
    \E t \in Tasks :
        /\ TransformerDone(t)
        /\ cfg.transformer = "double"
        /\ cfg.validator = "is_valid_uuid4"
        /\ gh[t].path = "reused"
        /\ pc[t] = "done"
        /\ Echoed(t)
        /\ OutboundIds(t) = <<ValidId \o ValidId>>

C9_NoValidator ==
    \A t \in Tasks :
        (Http(t) /\ cfg.validator = "None" /\ Truthy(InboundValue(t)))
        => /\ gh[t].gen = 0
           /\ gh[t].val = 0
           /\ log[t] = <<>>
           /\ Resolved(t) => gh[t].resolved = InboundValue(t)
           /\ (Echoed(t) /\ cfg.transformer = "identity")
                => OutboundIds(t) = <<InboundValue(t)>>

C9_Witness ==
    \E t \in Tasks :
        /\ Http(t)
        /\ cfg.validator = "None"
        /\ cfg.transformer = "identity"
        /\ InboundValue(t) = BadUuid
        /\ pc[t] = "done"
        /\ Echoed(t)
        /\ OutboundIds(t) = <<BadUuid>>

(***************************************************************************)
(* C10. Header reconciliation, as the inner handler sees the request.      *)
(***************************************************************************)
\* The inner handler of the http request of t has been called.
HandlerCalled(t) == Http(t) /\ gh[t].appCalls = 1

\* The header_name values of the scope the inner handler was called with.
SeenIds(t) == HGetList(gh[t].appScope.headers, header_name)

\* The final ID is the one in the scope, the context and the hook calls.
OneFinalId(t) ==
    /\ gh[t].final = loc[t].id_value
    /\ \A i \in 1..Len(gh[t].hookCalls) :
         gh[t].hookCalls[i][2] = loc[t].id_value

\* C10 as claimed: with update_request_header the handler sees header_name
\* exactly once, with the final ID, on every resolution path; without it, or
\* when the final ID is the inbound value, the headers are as received.
C10_AsClaimed ==
    \A t \in Tasks :
        HandlerCalled(t)
        => /\ cfg.update_request_header => SeenIds(t) = <<loc[t].id_value>>
           /\ (~cfg.update_request_header
                 \/ loc[t].id_value = InboundValue(t))
                => gh[t].appScope.headers = gh[t].inbound

\* C10 as amended: with update_request_header the first header_name value
\* the handler sees is the final ID, and it is the only one when the final
\* ID differs from the inbound value or the request came with at most one
\* header_name header; without it, or when the final ID is the inbound
\* value, the headers are as received.
C10_HeaderReconciled ==
    \A t \in Tasks :
        HandlerCalled(t)
        => /\ OneFinalId(t)
           /\ cfg.update_request_header
                => /\ HGet(gh[t].appScope.headers, header_name)
                        = loc[t].id_value
                   /\ (\/ loc[t].id_value # InboundValue(t)
                       \/ Len(HGetList(gh[t].inbound, header_name)) <= 1)
                        => SeenIds(t) = <<loc[t].id_value>>
           /\ (~cfg.update_request_header
                 \/ loc[t].id_value = InboundValue(t))
                => gh[t].appScope.headers = gh[t].inbound

C10_Witness ==
    \E t \in Tasks :
        /\ HandlerCalled(t)
        /\ cfg.update_request_header
        /\ cfg.transformer = "double"
        /\ Len(HGetList(gh[t].inbound, header_name)) = 2
        /\ SeenIds(t) = <<ValidId \o ValidId>>
        /\ Len(gh[t].appScope.headers) = 2

(***************************************************************************)
(* C11: the headers of the application survive the interception.           *)
(***************************************************************************)
\* The headers the application gave its http.response.start message.
AppHeaders(t) == gh[t].fromApp[1].headers

\* The headers of the http.response.start message the caller's send received.
SentHeaders(t) == sent[t][1].headers

\* C11: on http.response.start the middleware only appends: the headers the
\* application set (several under one name, one named header_name among
\* them) are the first headers of the forwarded message, with their values,
\* their number and their order, and what follows them is the one header_name
\* header of the middleware, or nothing when the context holds no ID.
C11_AppHeadersKept ==
    \A t \in Tasks :
        ResponseStarted(t)
        => /\ Len(SentHeaders(t)) >= Len(AppHeaders(t))
           /\ SubSeq(SentHeaders(t), 1, Len(AppHeaders(t))) = AppHeaders(t)
           /\ AddedHeaders(t) \in {<<>>, <<<<Lower(header_name), ctx[t]>>>>}
           /\ Truthy(ctx[t])
                => Len(HGetList(SentHeaders(t), header_name))
                     = Len(HGetList(AppHeaders(t), header_name)) + 1

C11_Witness ==
    \E t \in Tasks :
        /\ ResponseStarted(t)
        /\ AppHeaders(t) = <<<<"set-cookie", CookieA>>,
                             <<"x-request-id", AppOwnId>>,
                             <<"set-cookie", CookieB>>>>
        /\ HGetList(SentHeaders(t), "set-cookie") = <<CookieA, CookieB>>
        /\ HGetList(SentHeaders(t), header_name) = <<AppOwnId, ValidId>>

(***************************************************************************)
(* C12: the hooks and the inner handler.                                   *)
(***************************************************************************)
\* The first n hooks, each called with v: what hookCalls holds after them.
CallsOf(n, v) == [i \in 1..n |-> <<hooks[i], v>>]

\* C12: in an HTTP request no callable of which raises, every hook is called
\* once, in the order of registration and with the final ID; the hooks are
\* called after the final ID has been stored in the context and before the
\* inner handler is called, and the inner handler is called once.
C12_HooksThenHandler ==
    \A t \in Tasks :
        (Http(t) /\ gh[t].raisedBy = "none")
        => /\ \E n \in 0..Len(hooks) :
                gh[t].hookCalls = CallsOf(n, loc[t].id_value)
           /\ (gh[t].hookCalls # <<>> \/ pc[t] = "hooks")
                => gh[t].ctxset = 1 /\ gh[t].final = loc[t].id_value
           /\ pc[t] = "hooks" => ctx[t] = loc[t].id_value
           /\ gh[t].appCalls =
                IF pc[t] \in {"app", "body", "done"} THEN 1 ELSE 0
           /\ gh[t].appCalls = 1
                => gh[t].hookCalls = CallsOf(Len(hooks), loc[t].id_value)

C12_Witness ==
    \E t \in Tasks :
        /\ Http(t)
        /\ pc[t] = "done"
        /\ gh[t].path = "regenerated"
        /\ cfg.transformer = "double"
        /\ gh[t].hookCalls = <<<<"hook1", loc[t].id_value>>,
                               <<"hook2", loc[t].id_value>>>>
        /\ gh[t].appCalls = 1

(***************************************************************************)
(* C13: a callable that raises.                                            *)
(***************************************************************************)
\* The names of the callables of the model that may raise.
Callables == {"generator", "transformer"} \cup {hooks[i] : i \in 1..Len(hooks)}

\* C13: what a generator, a transformer or a hook raises is not recovered:
\* the request ends with the failure at the caller, its inner handler is
\* never called and the caller's send receives no message; a request ends
\* that way only when one of these callables raised, so a rejected or a
\* missing inbound ID is no failure by itself.
C13_FailurePropagates ==
    \A t \in Tasks :
        /\ gh[t].raisedBy # "none" <=> pc[t] = "raised"
        /\ pc[t] = "raised"
             => /\ Http(t)
                /\ gh[t].raisedBy \in Callables \cap Env.faulty
                /\ gh[t].appCalls = 0
                /\ gh[t].appSend = "none"
                /\ gh[t].fromApp = <<>>
                /\ sent[t] = <<>>
        /\ (Http(t) /\ Env.faulty = {})
             => pc[t] # "raised"

C13_Witness ==
    \E t \in Tasks :
        /\ pc[t] = "raised"
        /\ gh[t].raisedBy = "hook2"
        /\ gh[t].path = "reused"
        /\ sent[t] = <<>>
        /\ gh[t].appCalls = 0

(***************************************************************************)
(* C14: the context after the request.                                     *)
(***************************************************************************)
\* __call__ has returned from the HTTP request of t and the task runs on.
Returned(t) == Http(t) /\ pc[t] = "done"

\* C14 as claimed: once an HTTP request has returned, correlation_id.get()
\* in the same task gives no value, the value held before the request.
C14_AsClaimed ==
    \A t \in Tasks : Returned(t) => ctx[t] = None /\ ctx[t] = gh[t].ctx0

\* C14 as amended: __call__ stores the final ID and never takes it back:
\* once an HTTP request has returned, correlation_id.get() in the same task
\* gives the ID of that request (or what downstream code stored after it),
\* the next request of the task starts with that value and keeps it until it
\* stores its own; a task that has served no request reads no value.
C14_ContextKept ==
    \A t \in Tasks :
        /\ (Returned(t) /\ ~gh[t].replaced)
             => ctx[t] = loc[t].id_value /\ ctx[t] # None
        /\ (gh[t].ctxset = 0 /\ ~gh[t].replaced) => ctx[t] = gh[t].ctx0
        /\ pc[t] = "idle" => ctx[t] = None

C14_Witness ==
    \E t \in Tasks :
        /\ Returned(t)
        /\ gh[t].ctx0 = None
        /\ ctx[t] = ValidId

(***************************************************************************)
(* C15: the messages of the response.                                      *)
(***************************************************************************)
\* The application of t was given handle_outgoing_request as its send.
Intercepted(t) == Http(t) /\ gh[t].appSend = "handle_outgoing_request"

\* The header_name headers the messages of t's response gained on the way.
AppendedCount(t, i) ==
    IF "headers" \in DOMAIN sent[t][i]
    THEN Len(HGetList(sent[t][i].headers, header_name))
            - Len(HGetList(gh[t].fromApp[i].headers, header_name))
    ELSE 0

RECURSIVE AppendedUpTo(_, _)
AppendedUpTo(t, n) ==
    IF n = 0 THEN 0 ELSE AppendedCount(t, n) + AppendedUpTo(t, n - 1)

\* C15: every message the inner handler sends reaches the caller's send
\* once and in order; a message of another type than http.response.start
\* (body, trailers) is forwarded as it is, and over one response header_name
\* is appended at most once.
C15_OnlyResponseStart ==
    \A t \in Tasks :
        Intercepted(t)
        => /\ Len(sent[t]) = Len(gh[t].fromApp)
           /\ \A i \in 1..Len(sent[t]) :
                /\ sent[t][i].type = gh[t].fromApp[i].type
                /\ sent[t][i].type # "http.response.start"
                     => sent[t][i] = gh[t].fromApp[i]
           /\ AppendedUpTo(t, Len(sent[t])) <= 1

C15_Witness ==
    \E t \in Tasks :
        /\ Intercepted(t)
        /\ pc[t] = "done"
        /\ Len(sent[t]) = 2
        /\ sent[t][2] = [type |-> "http.response.trailers",
                         headers |-> TrailerHeaders]
        /\ AppendedCount(t, 1) = 1
        /\ AppendedUpTo(t, 2) = 1

(***************************************************************************)
(* C16: the value of the appended header.                                  *)
(***************************************************************************)
\* Downstream code stores into the context before the application's first
\* message only (AppSetContext), so ctx[t] is, from the first message on,
\* what the context held when that message was sent.

\* C16: the header_name header appended to http.response.start carries what
\* the context holds when the message is sent: the value downstream code
\* stored in place of the resolved ID, when it stored one; when the context
\* holds no ID or an empty one then, no header is appended and the message
\* is forwarded as it is.
C16_ValueAtSendTime ==
    \A t \in Tasks :
        (ResponseStarted(t) /\ Intercepted(t))
        => /\ Truthy(ctx[t])
                => AddedHeaders(t) = <<<<Lower(header_name), ctx[t]>>>>
           /\ ~Truthy(ctx[t]) => sent[t][1] = gh[t].fromApp[1]
           /\ ~gh[t].replaced => ctx[t] = loc[t].id_value
           /\ gh[t].replaced => ctx[t] \in Env.appsets

C16_Witness ==
    \E t \in Tasks :
        /\ ResponseStarted(t)
        /\ gh[t].replaced
        /\ loc[t].id_value = ValidId
        /\ OutboundIds(t) = <<AppSetId>>

(***************************************************************************)
(* C17: concurrent requests.                                               *)
(***************************************************************************)
\* Two requests are in flight at once: each has passed line 77 and neither
\* has returned.
InFlightTogether(t, u) ==
    /\ t # u
    /\ Http(t) /\ Http(u)
    /\ pc[t] \in {"app", "body"}
    /\ pc[u] \in {"app", "body"}

\* C17: however the requests of several tasks interleave, the header_name
\* header appended to the http.response.start of a request carries the final
\* ID resolved for that request (read, as C16 requires, for a response sent
\* while the context holds what __call__ stored), never that of another.
C17_OwnIdUnderInterleaving ==
    \A t \in Tasks :
        Echoed(t)
        => /\ OutboundIds(t) = <<loc[t].id_value>>
           /\ loc[t].id_value = gh[t].final
           /\ loc[t].id_value = Transformed(gh[t].resolved)
           /\ gh[t].path = "reused" => gh[t].resolved = InboundValue(t)

C17_Witness ==
    \E t, u \in Tasks :
        /\ InFlightTogether(t, u)
        /\ Echoed(t) /\ Echoed(u)
        /\ loc[t].id_value # loc[u].id_value
        /\ OutboundIds(t) = <<loc[t].id_value>>
        /\ OutboundIds(u) = <<loc[u].id_value>>
        /\ gh[t].path = "reused"
        /\ gh[u].path = "generated"

(***************************************************************************)
(* C18: what a failing callable leaves behind.                             *)
(***************************************************************************)
\* The request of t ended with what the callable named by raised.
FailedIn(t, by) == pc[t] = "raised" /\ gh[t].raisedBy = by

\* C18: when the generator or the transformer raises, the context and the
\* request's headers are as they were and no hook has been called; when the
\* k-th hook raises, the hooks before it have been called once each, those
\* after it not at all, the context holds the final ID and the request's
\* header has been reconciled with it.
C18_StateAfterFailure ==
    \A t \in Tasks :
        /\ (FailedIn(t, "generator") \/ FailedIn(t, "transformer"))
             => /\ gh[t].ctxset = 0
                /\ ctx[t] = gh[t].ctx0
                /\ scope[t].headers = gh[t].inbound
                /\ gh[t].hookCalls = <<>>
        /\ \A k \in 1..Len(hooks) :
             FailedIn(t, hooks[k])
             => /\ gh[t].hookCalls = CallsOf(k, loc[t].id_value)
                /\ gh[t].ctxset = 1
                /\ ctx[t] = loc[t].id_value
                /\ cfg.update_request_header
                     => HGet(scope[t].headers, header_name) = loc[t].id_value
                /\ ~cfg.update_request_header
                     => scope[t].headers = gh[t].inbound

C18_Witness ==
    \E t \in Tasks :
        /\ FailedIn(t, "hook2")
        /\ gh[t].path = "regenerated"
        /\ cfg.update_request_header
        /\ Len(gh[t].hookCalls) = 2
        /\ ctx[t] = loc[t].id_value
        /\ InboundValue(t) = BadUuid
        /\ HGet(scope[t].headers, header_name) = loc[t].id_value

====
